---- MODULE Spec2Model ----
(***************************************************************************)
(* A model of git_tools.py (the GitBrowse Sublime Text command): the pure  *)
(* string functions, the git wrappers built on _git, and GitBrowse.run.    *)
(* Python strings are TLA+ strings; Optional[str] is a tuple (<<>> is      *)
(* None, <<s>> is the string s); a call's outcome is a record saying       *)
(* whether it returned or raised, with the value or the exception.         *)
(***************************************************************************)
EXTENDS Integers, Sequences, FiniteSets, TLC

VARIABLES
    repo,       \* what the git executable answers to each command
    view,       \* the editor's active view: its state, file name and selection
    table,      \* the replacement table handed to convert_remote_url
    arg,        \* the argument of the function under call
    pc,         \* "idle" before the call, "done" after it, "again" after a repeat
    op,         \* the function that was called
    result,     \* the outcome of the call: returned value or raised exception
    prev,       \* the outcome of the call before, when a call is repeated
    browser,    \* the URLs handed to webbrowser.open
    status      \* the messages handed to sublime.status_message

vars == <<repo, view, table, arg, pc, op, result, prev, browser, status>>

-----------------------------------------------------------------------------
(* Python's str methods, as the code uses them. *)

StartsWith(s, p) == Len(p) <= Len(s) /\ SubSeq(s, 1, Len(p)) = p

EndsWith(s, p) == Len(p) <= Len(s) /\ SubSeq(s, Len(s) - Len(p) + 1, Len(s)) = p

\* str.find, 1-based; 0 when sub does not occur.
Find(s, sub) ==
    LET hits == {i \in 1..(Len(s) - Len(sub) + 1) :
                    SubSeq(s, i, i + Len(sub) - 1) = sub}
    IN IF hits = {} THEN 0 ELSE CHOOSE i \in hits : \A j \in hits : i <= j

Contains(s, sub) == Find(s, sub) # 0

\* s.replace(old, new, 1)
ReplaceFirst(s, old, new) ==
    LET i == Find(s, old)
    IN IF i = 0 THEN s
       ELSE SubSeq(s, 1, i - 1) \o new \o SubSeq(s, i + Len(old), Len(s))

IsSpace(c) == c \in {" ", "\n", "\t"}

\* s.strip()
Strip(s) ==
    LET keep == {i \in 1..Len(s) : ~IsSpace(SubSeq(s, i, i))}
    IN IF keep = {} THEN ""
       ELSE SubSeq(s, CHOOSE i \in keep : \A j \in keep : i <= j,
                      CHOOSE i \in keep : \A j \in keep : j <= i)

RECURSIVE SplitLines(_)
\* s.splitlines()
SplitLines(s) ==
    IF s = "" THEN <<>>
    ELSE LET i == Find(s, "\n")
         IN IF i = 0 THEN <<s>>
            ELSE <<SubSeq(s, 1, i - 1)>> \o SplitLines(SubSeq(s, i + 1, Len(s)))

\* The characters of the modelled strings, in code point order.
CodePoints == "\n !#()*-./0123456789:=>?@ABCDEFGHIJKLMNOPQRSTUVWXYZ_abcdefghijklmnopqrstuvwxyz"

Ord(c) == Find(CodePoints, c)

RECURSIVE StrLess(_, _)
\* a < b on str: code point by code point, a proper prefix first.
StrLess(a, b) ==
    IF b = "" THEN FALSE
    ELSE IF a = "" THEN TRUE
    ELSE IF SubSeq(a, 1, 1) = SubSeq(b, 1, 1) THEN StrLess(Tail(a), Tail(b))
    ELSE Ord(SubSeq(a, 1, 1)) < Ord(SubSeq(b, 1, 1))

RECURSIVE Insert(_, _)
Insert(x, sq) ==
    IF sq = <<>> THEN <<x>>
    ELSE IF StrLess(x, Head(sq)) THEN <<x>> \o sq
    ELSE <<Head(sq)>> \o Insert(x, Tail(sq))

RECURSIVE Sorted(_)
\* sorted(list of str)
Sorted(sq) == IF sq = <<>> THEN <<>> ELSE Insert(Head(sq), Sorted(Tail(sq)))

IsIn(x, sq) == \E i \in 1..Len(sq) : sq[i] = x

-----------------------------------------------------------------------------
(* Outcomes of a call. *)

None == <<>>
Some(s) == <<s>>
Truthy(o) == o # None /\ o # Some("")

NoExc == [type |-> "", cmd |-> <<>>, returncode |-> 0, stderr |-> "", uri |-> ""]

Return(v) == [tag |-> "return", val |-> v, exc |-> NoExc, logged |-> FALSE]

Raise(e, dflt) == [tag |-> "raise", val |-> dflt, exc |-> e, logged |-> FALSE]

UnsupportedURIException(u) == [NoExc EXCEPT !.type = "UnsupportedURIException", !.uri = u]

removeprefix(base, prefix) ==
    IF StartsWith(base, prefix) THEN SubSeq(base, Len(prefix) + 1, Len(base)) ELSE base

removesuffix(base, suffix) ==
    IF EndsWith(base, suffix) THEN SubSeq(base, 1, Len(base) - Len(suffix)) ELSE base

-----------------------------------------------------------------------------
(* convert_remote_url.  A replacement table is a sequence of <<key, value>> *)
(* pairs in the dict's iteration order; <<>> is both None and {}.          *)

RECURSIVE scan_replacements(_, _)
scan_replacements(u, replacements) ==
    IF replacements = <<>> THEN Raise(UnsupportedURIException(u), "")
    ELSE IF StartsWith(u, Head(replacements)[1])
         THEN Return(ReplaceFirst(u, Head(replacements)[1], Head(replacements)[2]))
    ELSE scan_replacements(u, Tail(replacements))

\* convert_remote_url with the table consulted before the built-in rules.
convert_table_first(u, replacements) ==
    IF scan_replacements(u, replacements).tag = "return"
    THEN scan_replacements(u, replacements)
    ELSE IF StartsWith(u, "https://github.com") THEN Return(u)
    ELSE IF StartsWith(u, "git@github.com")
         THEN Return("https://"
                     \o ReplaceFirst(removesuffix(removeprefix(u, "git@"), ".git"),
                                     ":", "/"))
    ELSE IF StartsWith(u, "https://go.googlesource.com/")
         THEN Return(ReplaceFirst(u, "https://go.googlesource.com/",
                                  "https://github.com/golang/"))
    ELSE Raise(UnsupportedURIException(u), "")

\* convert_remote_url with the SSH form left without its scheme.
convert_no_scheme(u, replacements) ==
    IF StartsWith(u, "https://github.com") THEN Return(u)
    ELSE IF StartsWith(u, "git@github.com")
         THEN Return(ReplaceFirst(removesuffix(removeprefix(u, "git@"), ".git"), ":", "/"))
    ELSE IF StartsWith(u, "https://go.googlesource.com/")
         THEN Return(ReplaceFirst(u, "https://go.googlesource.com/",
                                  "https://github.com/golang/"))
    ELSE scan_replacements(u, replacements)

convert_remote_url(u, replacements) ==
    IF StartsWith(u, "https://github.com") THEN Return(u)
    ELSE IF StartsWith(u, "git@github.com")
         THEN Return("https://"
                     \o ReplaceFirst(removesuffix(removeprefix(u, "git@"), ".git"),
                                     ":", "/"))
    ELSE IF StartsWith(u, "https://go.googlesource.com/")
         THEN Return(ReplaceFirst(u, "https://go.googlesource.com/",
                                  "https://github.com/golang/"))
    ELSE scan_replacements(u, replacements)

-----------------------------------------------------------------------------
(* The git executable.  A process outcome is what subprocess.run observes:  *)
(* a timeout, or an exit code with the captured stdout and stderr.  The     *)
(* repository answers each command from `repo`; a config key it does not    *)
(* hold exits 1 with nothing on stderr, as `git config` does.               *)

Exit0(out) == [timeout |-> FALSE, returncode |-> 0, stdout |-> out, stderr |-> ""]

Failed(rc, err) == [timeout |-> FALSE, returncode |-> rc, stdout |-> "", stderr |-> err]

TimedOut == [timeout |-> TRUE, returncode |-> 0, stdout |-> "", stderr |-> ""]

Process(r, cmd) ==
    IF cmd = <<"rev-parse", "--show-toplevel">> THEN r.toplevel
    ELSE IF cmd = <<"rev-parse", "HEAD">> THEN r.head
    ELSE IF cmd = <<"name-rev", "--name-only", "HEAD">> THEN r.nameRev
    ELSE IF cmd = <<"remote", "show">> THEN r.remotes
    ELSE IF cmd[1] = "branch" THEN r.contains
    ELSE IF cmd[1] = "config" /\ cmd[Len(cmd)] \in DOMAIN r.config
         THEN r.config[cmd[Len(cmd)]]
    ELSE Failed(1, "")

CalledProcessError(cmd, rc, err) ==
    [NoExc EXCEPT !.type = "CalledProcessError", !.cmd = cmd,
                  !.returncode = rc, !.stderr = err]

TimeoutExpired(cmd) == [NoExc EXCEPT !.type = "TimeoutExpired", !.cmd = cmd]

AttributeError == [NoExc EXCEPT !.type = "AttributeError"]

\* subprocess.run(..., encoding="utf-8") captures stdout and stderr as str,
\* and str has no decode method.
StderrIsStr == TRUE

\* The handler of CalledProcessError in _git.
git_failed(argv, proc) ==
    IF proc.stderr # "" /\ StderrIsStr
    THEN Raise(AttributeError, "")
    ELSE [Raise(CalledProcessError(argv, proc.returncode, proc.stderr), "")
            EXCEPT !.logged = TRUE]

\* The directories of the file system; every other path is a file.
Directories == {"/w", "/w/src"}

isdir(path) == path \in Directories

RECURSIVE dirname(_)
dirname(path) ==
    IF path = "" \/ path = "/" THEN path
    ELSE IF EndsWith(path, "/") THEN removesuffix(path, "/")
    ELSE dirname(SubSeq(path, 1, Len(path) - 1))

_git(r, path, cmd) ==
    LET argv == <<"git", "-C", IF isdir(path) THEN path ELSE dirname(path)>> \o cmd
        proc == Process(r, cmd)
    IN IF proc.timeout THEN Raise(TimeoutExpired(argv), "")
       ELSE IF proc.returncode # 0 THEN git_failed(argv, proc)
       ELSE IF proc.stdout # "" THEN Return(Strip(proc.stdout))
       ELSE Return("")

Caught(res) == res.tag = "raise" /\ res.exc.type = "CalledProcessError"

\* An exception passing through a caller: the caller returns nothing.
Propagate(res, dflt) == Raise(res.exc, dflt)

git_top_level(r, path) == _git(r, path, <<"rev-parse", "--show-toplevel">>)

git_commit_sha(r, path) == _git(r, path, <<"rev-parse", "HEAD">>)

\* git_branch with a tag name stripped of 'tags/' and returned.
git_branch_strips_tag(r, path) ==
    LET name == _git(r, path, <<"name-rev", "--name-only", "HEAD">>)
    IN IF name.tag = "return" /\ name.val # "HEAD"
       THEN Return(removeprefix(name.val, "tags/"))
       ELSE IF name.tag = "raise" /\ ~Caught(name) THEN Propagate(name, "")
       ELSE LET sha == git_commit_sha(r, path)
            IN IF sha.tag = "return" THEN Return(sha.val) ELSE Propagate(sha, "")

git_branch(r, path) ==
    LET name == _git(r, path, <<"name-rev", "--name-only", "HEAD">>)
    IN IF name.tag = "return" /\ name.val # "HEAD" /\ ~StartsWith(name.val, "tags/")
       THEN Return(name.val)
       ELSE IF name.tag = "raise" /\ ~Caught(name) THEN Propagate(name, "")
       ELSE LET sha == git_commit_sha(r, path)
            IN IF sha.tag = "return" THEN Return(sha.val) ELSE Propagate(sha, "")

PREFERRED_BRANCHES == <<"master", "main", "remotes/origin/master", "remotes/origin/main">>

IsCurrent(b) == StartsWith(b, "* ") /\ ~Contains(b, "HEAD detached at")

RECURSIVE first_current(_)
\* The first loop of git_commit_branch; branches holds a current branch.
first_current(branches) ==
    IF IsCurrent(Head(branches)) THEN Head(branches) ELSE first_current(Tail(branches))

RECURSIVE first_preferred(_, _)
\* The loop over PREFERRED_BRANCHES; branches holds one of preferred.
first_preferred(preferred, branches) ==
    IF IsIn(Head(preferred), branches) THEN Head(preferred)
    ELSE first_preferred(Tail(preferred), branches)

RECURSIVE scan_remotes(_, _, _)
\* The loop over sorted(branches) of git_commit_branch.
scan_remotes(r, path, bs) ==
    IF bs = <<>> THEN Return(None)
    ELSE LET remote == _git(r, path, <<"config", "branch." \o Head(bs) \o ".remote">>)
         IN IF Caught(remote) THEN scan_remotes(r, path, Tail(bs))
            ELSE IF remote.tag = "raise" THEN Propagate(remote, None)
            ELSE LET url == _git(r, path, <<"config", "remote." \o remote.val \o ".url">>)
                 IN IF Caught(url) THEN scan_remotes(r, path, Tail(bs))
                    ELSE IF url.tag = "raise" THEN Propagate(url, None)
                    ELSE IF url.val # "" THEN Return(Some(Head(bs)))
                    ELSE scan_remotes(r, path, Tail(bs))

\* git_commit_branch from the branch listing on: the three searches.
pick_branch(r, path, branches) ==
    IF \E i \in 1..Len(branches) : IsCurrent(branches[i])
    THEN Return(Some(removeprefix(first_current(branches), "* ")))
    ELSE LET stripped == [i \in 1..Len(branches) |-> Strip(branches[i])]
         IN IF \E i \in 1..Len(PREFERRED_BRANCHES) : IsIn(PREFERRED_BRANCHES[i], stripped)
            THEN Return(Some(first_preferred(PREFERRED_BRANCHES, stripped)))
            ELSE scan_remotes(r, path, Sorted(stripped))

git_commit_branch(r, path, commit) ==
    LET listing == _git(r, path, <<"branch", "--all", "--no-color", "--contains", commit>>)
    IN IF Caught(listing) THEN Return(None)
       ELSE IF listing.tag = "raise" THEN Propagate(listing, None)
       ELSE IF SplitLines(listing.val) = <<>> THEN Return(None)
       ELSE pick_branch(r, path, SplitLines(listing.val))

git_remotes(r, path) ==
    LET out == _git(r, path, <<"remote", "show">>)
    IN IF out.tag = "return" THEN Return(SplitLines(out.val)) ELSE Propagate(out, <<>>)

\* The try block of git_branch_remote_url: the branch's remote, then its URL.
branch_remote_lookup(r, path, branch) ==
    LET remote == _git(r, path, <<"config", "get", "branch." \o branch \o ".remote">>)
    IN IF Caught(remote) THEN Return(None)
       ELSE IF remote.tag = "raise" THEN Propagate(remote, None)
       ELSE IF remote.val # ""
            THEN LET url == _git(r, path, <<"config", "get", "remote." \o remote.val \o ".url">>)
                 IN IF Caught(url) THEN Return(None)
                    ELSE IF url.tag = "raise" THEN Propagate(url, None)
                    ELSE Return(Some(url.val))
       ELSE Return(Some(""))

\* The `len(remotes) == 1` path of git_branch_remote_url, outside the try.
single_remote_lookup(r, path, name) ==
    LET url == _git(r, path, <<"config", "get", "remote." \o name \o ".url">>)
    IN IF url.tag = "return" THEN Return(Some(url.val)) ELSE Propagate(url, None)

git_branch_remote_url(r, path, branch) ==
    LET remotes == git_remotes(r, path)
    IN IF remotes.tag = "raise" THEN Propagate(remotes, None)
       ELSE IF Len(remotes.val) = 1 THEN single_remote_lookup(r, path, remotes.val[1])
       ELSE branch_remote_lookup(r, path, branch)

\* os.path.relpath(path, start) for a path below start.
relpath(path, start) == removeprefix(path, start \o "/")

repo_relpath(r, path) ==
    LET top == git_top_level(r, path)
    IN IF top.tag = "return" THEN Return(relpath(path, top.val)) ELSE Propagate(top, "")

-----------------------------------------------------------------------------
(* GitBrowse.run.  A view is [state, file_name, sel]: sel is the sequence   *)
(* of selected regions, each with the (row, col) of its two ends.  The      *)
(* outcome of run adds what it handed to the browser and the status bar.    *)

RowRange(b, e) == [begin |-> b, end |-> e]

view_selection_rows(v) ==
    IF Len(v.sel) >= 1
    THEN IF v.sel[1].begin = v.sel[1].end THEN None
         ELSE Some(RowRange(v.sel[1].begin[1] + 1, v.sel[1].end[1] + 1))
    ELSE None

Ran(res, urls, msgs) == [tag |-> res.tag, exc |-> res.exc, opened |-> urls, messages |-> msgs]

\* f"{n}" of an int
Str(n) == ToString(n)

\* build_url without the query flag in front of the line anchor.
build_url_no_plain(base_url, branch, rel, row_range) ==
    LET url == base_url \o "/blob/" \o branch \o "/" \o rel
    IN IF row_range # None
       THEN url \o "#L" \o Str(row_range[1].begin) \o "-L" \o Str(row_range[1].end)
       ELSE url

\* The URL run builds from its parts.
build_url(base_url, branch, rel, row_range) ==
    LET url == base_url \o "/blob/" \o branch \o "/" \o rel
    IN IF row_range # None
       THEN url \o "?plain=1#L" \o Str(row_range[1].begin) \o "-L" \o Str(row_range[1].end)
       ELSE url

\* browse with a remote that cannot be converted used as it is.
browse_raw_remote(r, file_name, branch, remote, row_range) ==
    LET base_url == convert_remote_url(remote, <<>>)
        rel == repo_relpath(r, file_name)
    IN IF rel.tag = "raise" THEN Ran(rel, <<>>, <<>>)
       ELSE IF base_url.tag = "raise"
            THEN Ran(Return(None), <<build_url(remote, branch, rel.val, row_range)>>, <<>>)
       ELSE Ran(Return(None), <<build_url(base_url.val, branch, rel.val, row_range)>>, <<>>)

\* run from convert_remote_url on.
browse(r, file_name, branch, remote, row_range) ==
    LET base_url == convert_remote_url(remote, <<>>)
        rel == repo_relpath(r, file_name)
    IN IF base_url.tag = "raise" THEN Ran(base_url, <<>>, <<>>)
       ELSE IF rel.tag = "raise" THEN Ran(rel, <<>>, <<>>)
       ELSE Ran(Return(None), <<build_url(base_url.val, branch, rel.val, row_range)>>, <<>>)

\* The `if not remote:` block of run.
retry_with_commit_branch(r, file_name, branch, row_range) ==
    LET resolved_branch == git_commit_branch(r, file_name, branch)
    IN IF resolved_branch.tag = "raise" THEN Ran(resolved_branch, <<>>, <<>>)
       ELSE IF ~Truthy(resolved_branch.val) THEN Ran(Return(None), <<>>, <<>>)
       ELSE LET remote == git_branch_remote_url(r, file_name, resolved_branch.val[1])
            IN IF remote.tag = "raise" THEN Ran(remote, <<>>, <<>>)
               ELSE IF ~Truthy(remote.val) THEN Ran(Return(None), <<>>, <<>>)
               ELSE browse(r, file_name, resolved_branch.val[1], remote.val[1], row_range)

\* run once the view and its file name are there.
browse_file(r, file_name, row_range) ==
    LET branch == git_branch(r, file_name)
    IN IF branch.tag = "raise" THEN Ran(branch, <<>>, <<>>)
       ELSE LET remote == git_branch_remote_url(r, file_name, branch.val)
            IN IF remote.tag = "raise" THEN Ran(remote, <<>>, <<>>)
               ELSE IF ~Truthy(remote.val)
                    THEN retry_with_commit_branch(r, file_name, branch.val, row_range)
               ELSE browse(r, file_name, branch.val, remote.val[1], row_range)

run(r, v) ==
    IF v.state # "ok" THEN Ran(Return(None), <<>>, <<>>)
    ELSE IF v.file_name = None
         THEN Ran(Return(None), <<>>, <<"error: GitBrowse: file not saved to disk">>)
    ELSE browse_file(r, v.file_name[1], view_selection_rows(v))

-----------------------------------------------------------------------------
(* The inputs: repositories, views, URLs and replacement tables. *)

MaxTable == 2
MaxBranches == 2
MaxRow == 1
MaxCol == 1

File == "/w/src/a.go"
Sha == "a1b2c3"

\* The sequences of at most n distinct elements of S.
SeqsUpTo(S, n) ==
    {sq \in UNION {[1..k -> S] : k \in 0..n} :
        \A i, j \in 1..Len(sq) : i # j => sq[i] # sq[j]}

RECURSIVE Join(_)
\* The stdout of a listing: each line and its line end.
Join(lines) == IF lines = <<>> THEN "" ELSE Head(lines) \o "\n" \o Join(Tail(lines))

Configs(originUrls, upUrls, mainRemotes, devRemotes, zetaRemotes) ==
    {("remote.origin.url" :> a) @@ ("remote.up.url" :> b) @@ ("branch.main.remote" :> c)
        @@ ("branch.dev.remote" :> d) @@ ("branch.zeta.remote" :> e) :
        a \in originUrls, b \in upUrls, c \in mainRemotes, d \in devRemotes, e \in zetaRemotes}

DefaultConfig ==
    ("remote.origin.url" :> Exit0("git@github.com:org/repo.git\n"))
        @@ ("remote.up.url" :> Exit0("https://github.com/up/repo\n"))
        @@ ("branch.main.remote" :> Exit0("origin\n"))
        @@ ("branch.dev.remote" :> Failed(1, ""))
        @@ ("branch.zeta.remote" :> Failed(1, ""))

DefaultRepo ==
    [toplevel |-> Exit0("/w\n"), head |-> Exit0(Sha \o "\n"), nameRev |-> Exit0("main\n"),
     remotes |-> Exit0("origin\n"), contains |-> Exit0("* main\n"), config |-> DefaultConfig]

NameRevs ==
    {Exit0("main\n"), Exit0("HEAD\n"), Exit0("tags/v1\n"), Failed(128, ""),
     Failed(128, "fatal: bad revision\n"), TimedOut}

Heads == {Exit0(Sha \o "\n"), Failed(128, ""), Failed(128, "fatal: bad revision\n")}

RemoteLists == {Exit0("origin\n"), Exit0("origin\nup\n"), Exit0(""), Failed(1, "")}

\* The repositories GitBrowse.run is checked on.
RunRepos ==
    [toplevel : {Exit0("/w\n"), Failed(128, "")},
     head     : {Exit0(Sha \o "\n"), Failed(128, "")},
     nameRev  : NameRevs,
     remotes  : RemoteLists,
     contains : {Exit0(""), Exit0("* dev\n  main\n"), Exit0("  dev\n  remotes/origin/main\n"),
                 Exit0("* (HEAD detached at a1b2c3)\n  dev\n  zeta\n"),
                 Failed(129, "error: malformed object name\n")},
     config   : Configs({Exit0("git@github.com:org/repo.git\n"), Exit0("https://example.com/x\n"),
                         Exit0("\n"), Failed(1, "")},
                        {Exit0("https://github.com/up/repo\n")},
                        {Exit0("origin\n"), Failed(1, "")},
                        {Exit0("up\n"), Exit0("origin\n"), Failed(1, "")},
                        {Failed(1, "")})]

Points == {<<row, col>> : row \in 0..MaxRow, col \in 0..MaxCol}

Before(p, q) == p[1] < q[1] \/ (p[1] = q[1] /\ p[2] <= q[2])

Regions == {[begin |-> pq[1], end |-> pq[2]] : pq \in {x \in Points \X Points : Before(x[1], x[2])}}

SavedView(sel) == [state |-> "ok", file_name |-> Some(File), sel |-> sel]

\* Every view: not there, not usable, not saved, or saved with any selection.
Views ==
    {[state |-> st, file_name |-> Some(File), sel |-> <<>>] : st \in {"none", "invalid", "loading"}}
        \cup {[state |-> "ok", file_name |-> None, sel |-> <<>>], SavedView(<<>>)}
        \cup {SavedView(<<reg>>) : reg \in Regions}

\* The repositories of a saved file whose run reaches the browser or not.
FewRepos ==
    {[DefaultRepo EXCEPT !.remotes = rs, !.nameRev = nr] :
        rs \in {Exit0("origin\n"), Exit0("")}, nr \in {Exit0("main\n"), Exit0("tags/v1\n")}}

FewViews ==
    {SavedView(<<>>), SavedView(<<[begin |-> <<0, 0>>, end |-> <<MaxRow, MaxCol>>]>>)}

Nothing == Return(None)

Idle ==
    /\ arg = ""
    /\ pc = "idle"
    /\ op = ""
    /\ result = Nothing
    /\ prev = Nothing
    /\ browser = <<>>
    /\ status = <<>>

Init ==
    /\ \/ repo \in RunRepos /\ view \in FewViews
       \/ repo \in FewRepos /\ view \in Views
    /\ table = <<>>
    /\ Idle

\* The GitBrowse command runs once on the active view.
GitBrowseRun ==
    /\ pc = "idle"
    /\ pc' = "done"
    /\ op' = "run"
    /\ result' = run(repo, view)
    /\ browser' = browser \o run(repo, view).opened
    /\ status' = status \o run(repo, view).messages
    /\ UNCHANGED <<repo, view, table, arg, prev>>

Next == GitBrowseRun

Spec == Init /\ [][Next]_vars

-----------------------------------------------------------------------------
(* convert_remote_url on its own: on a raw URL, then on its own output. *)

URLs ==
    {"https://github.com/org/repo", "https://github.com", "https://github.community/x",
     "git@github.com:org/repo.git", "git@github.com:org/repo", "git@github.com:a:b.git",
     "https://go.googlesource.com/tools", "https://gitlab.com/g/p", "git@gitlab.com:g/p.git",
     "https://example.com/x", "ssh://git@github.com/org/repo.git", ""}

Replacements ==
    {<<"https://gitlab.com/", "https://github.com/mirror/">>,
     <<"https://gitlab.com/g", "https://example.com/g">>,
     <<"git@gitlab.com:", "https://gitlab.com/">>,
     <<"https://github.com", "https://example.com">>,
     <<"git@", "ssh://">>,
     <<"https://", "http://">>}

Tables == SeqsUpTo(Replacements, MaxTable)

InitConvert ==
    /\ repo = DefaultRepo
    /\ view = SavedView(<<>>)
    /\ table \in Tables
    /\ arg \in URLs
    /\ pc = "idle"
    /\ op = ""
    /\ result = Nothing
    /\ prev = Nothing
    /\ browser = <<>>
    /\ status = <<>>

Convert ==
    /\ pc = "idle"
    /\ pc' = "done"
    /\ op' = "convert_remote_url"
    /\ result' = convert_remote_url(arg, table)
    /\ UNCHANGED <<repo, view, table, arg, prev, browser, status>>

\* The URL that came out goes in again, with the same table.
ConvertAgain ==
    /\ pc = "done"
    /\ result.tag = "return"
    /\ pc' = "again"
    /\ prev' = result
    /\ result' = convert_remote_url(result.val, table)
    /\ UNCHANGED <<repo, view, table, arg, op, browser, status>>

NextConvert == Convert \/ ConvertAgain

SpecConvert == InitConvert /\ [][NextConvert]_vars

-----------------------------------------------------------------------------
(* Properties of convert_remote_url, under SpecConvert. *)

BuiltIn(u) ==
    \/ StartsWith(u, "https://github.com")
    \/ StartsWith(u, "git@github.com")
    \/ StartsWith(u, "https://go.googlesource.com/")

Matching(u, t) == {i \in 1..Len(t) : StartsWith(u, t[i][1])}

\* u with its first n characters replaced by v
Reprefixed(u, n, v) == v \o SubSeq(u, n + 1, Len(u))

\* The SSH form by rule 2: 'git@' and a final '.git' off, the first ':' a '/'.
SshToHttps(u) ==
    LET host == SubSeq(u, Len("git@") + 1, Len(u))
        bare == IF EndsWith(host, ".git") THEN SubSeq(host, 1, Len(host) - Len(".git")) ELSE host
        colons == {i \in 1..Len(bare) : SubSeq(bare, i, i) = ":"}
        slashed == IF colons = {} THEN bare
                   ELSE LET c == CHOOSE i \in colons : \A j \in colons : i <= j
                        IN SubSeq(bare, 1, c - 1) \o "/" \o SubSeq(bare, c + 1, Len(bare))
    IN "https://" \o slashed

FirstApplicableRule(u, t) ==
    IF StartsWith(u, "https://github.com") THEN Return(u)
    ELSE IF StartsWith(u, "git@github.com") THEN Return(SshToHttps(u))
    ELSE IF StartsWith(u, "https://go.googlesource.com/")
         THEN Return(Reprefixed(u, Len("https://go.googlesource.com/"), "https://github.com/golang/"))
    ELSE IF Matching(u, t) # {}
         THEN LET i == CHOOSE k \in Matching(u, t) : \A j \in Matching(u, t) : k <= j
              IN Return(Reprefixed(u, Len(t[i][1]), t[i][2]))
    ELSE Raise(UnsupportedURIException(u), "")

\* C4: convert_remote_url returns the result of the first applicable rule, in
\* the order https://github.com (unchanged), git@github.com (SSH form
\* rewritten), https://go.googlesource.com/ (mirror prefix replaced), then the
\* first table entry in table order whose key is a prefix of the URL; the
\* table is consulted only when no built-in rule applies, and when no rule
\* applies the call raises UnsupportedURIException carrying the original URL.
C4_FirstApplicableRule ==
    (pc = "done" /\ op = "convert_remote_url") => result = FirstApplicableRule(arg, table)

\* C4's case: two table entries match a URL no built-in rule takes, and the
\* first one in table order was applied.
C4_Witness ==
    /\ pc = "done"
    /\ op = "convert_remote_url"
    /\ ~BuiltIn(arg)
    /\ Cardinality(Matching(arg, table)) = 2
    /\ table[1][2] # table[2][2]
    /\ result = Return(Reprefixed(arg, Len(table[1][1]), table[1][2]))

\* C3 as stated: for every URL convert_remote_url accepts, with the same
\* table, converting its output again succeeds and gives the same URL.
C3_IdempotentOnEveryAcceptedURL ==
    pc = "again" => (result.tag = "return" /\ result.val = prev.val)

\* C3, amended: converting the output again succeeds and gives the same URL
\* for every URL a built-in rule accepts, and for a URL accepted through the
\* replacement table when the replaced URL begins with https://github.com.
C3_IdempotentOnBuiltInForms ==
    (pc = "again" /\ (BuiltIn(arg) \/ StartsWith(prev.val, "https://github.com")))
        => (result.tag = "return" /\ result.val = prev.val)

\* C3's case: an SSH URL was rewritten, and the rewritten URL converted again.
C3_Witness ==
    /\ pc = "again"
    /\ StartsWith(arg, "git@github.com")
    /\ prev.val # arg
    /\ result = Return(prev.val)

-----------------------------------------------------------------------------
(* Properties of GitBrowse.run, under Spec. *)

RunDone == pc = "done" /\ op = "run"

Opened == RunDone /\ browser # <<>>

HeadName == _git(repo, File, <<"name-rev", "--name-only", "HEAD">>)

FirstBranch == git_branch(repo, File)

FirstRemote == git_branch_remote_url(repo, File, FirstBranch.val)

FoundBranch == git_commit_branch(repo, File, FirstBranch.val)

RetryRemote == git_branch_remote_url(repo, File, FoundBranch.val[1])

\* The first lookup was made and gave no remote.
Retried == FirstBranch.tag = "return" /\ FirstRemote.tag = "return" /\ ~Truthy(FirstRemote.val)

NoBranchFound == Retried /\ FoundBranch.tag = "return" /\ ~Truthy(FoundBranch.val)

NoRemoteFound ==
    /\ Retried
    /\ FoundBranch.tag = "return"
    /\ Truthy(FoundBranch.val)
    /\ RetryRemote.tag = "return"
    /\ ~Truthy(RetryRemote.val)

\* The remote and the branch of a run that opened the browser.
UsedRemote == IF Truthy(FirstRemote.val) THEN FirstRemote.val[1] ELSE RetryRemote.val[1]

UsedBranch == IF Truthy(FirstRemote.val) THEN FirstBranch.val ELSE FoundBranch.val[1]

UsedBase == convert_remote_url(UsedRemote, <<>>).val

\* C1: the browser is opened only if a lookup, the first or the one retry for
\* the branch the commit-branch search returned, gave a non-empty remote URL
\* of a form convert_remote_url accepts; and when the search returns no
\* branch, or the retry no remote, run ends with no browser opened.
C1_BrowserOnlyWithRemote ==
    /\ Opened =>
        /\ FirstBranch.tag = "return"
        /\ FirstRemote.tag = "return"
        /\ IF Truthy(FirstRemote.val) THEN BuiltIn(FirstRemote.val[1])
           ELSE /\ FoundBranch.tag = "return"
                /\ Truthy(FoundBranch.val)
                /\ RetryRemote.tag = "return"
                /\ Truthy(RetryRemote.val)
                /\ BuiltIn(RetryRemote.val[1])
    /\ (RunDone /\ (NoBranchFound \/ NoRemoteFound)) => (browser = <<>> /\ result.tag = "return")

\* C1's case: the first lookup gave no remote, the retry did, the browser opened.
C1_Witness == Opened /\ Retried /\ Truthy(RetryRemote.val)

\* C2: no exception escapes run, whatever the git commands and the remote URL do.
C2_NoExceptionEscapesRun == RunDone => result.tag = "return"

\* C5 as stated: when the name of HEAD begins with 'tags/', the branch segment
\* of the URL is that name with 'tags/' stripped.
C5_TagPrefixStripped ==
    (Opened /\ HeadName.tag = "return" /\ StartsWith(HeadName.val, "tags/"))
        => StartsWith(browser[1],
                      UsedBase \o "/blob/" \o removeprefix(HeadName.val, "tags/") \o "/")

\* The branch segment when HEAD is named by a tag: the commit hash, or the
\* branch the commit-branch search found for it.
TagSegment ==
    IF Truthy(FirstRemote.val) THEN git_commit_sha(repo, File).val ELSE FoundBranch.val[1]

\* C5, amended: when the name of HEAD begins with 'tags/', the branch segment
\* of the URL is the commit hash of HEAD, or, when no remote is found for the
\* hash, the branch the commit-branch search returns for it; never the tag name.
C5_TagFallsBackToCommit ==
    (Opened /\ HeadName.tag = "return" /\ StartsWith(HeadName.val, "tags/"))
        => StartsWith(browser[1], UsedBase \o "/blob/" \o TagSegment \o "/")

\* C5's case: HEAD is named by a tag and the URL opened carries the commit hash.
C5_Witness ==
    /\ Opened
    /\ HeadName.val = "tags/v1"
    /\ StartsWith(browser[1], UsedBase \o "/blob/" \o Sha \o "/")

HasRange == Len(view.sel) >= 1 /\ view.sel[1].begin # view.sel[1].end

RECURSIVE Decimal(_)
Decimal(n) ==
    IF n < 10 THEN SubSeq("0123456789", n + 1, n + 1)
    ELSE Decimal(n \div 10) \o SubSeq("0123456789", (n % 10) + 1, (n % 10) + 1)

LineAnchor ==
    "?plain=1#L" \o Decimal(view.sel[1].begin[1] + 1) \o "-L" \o Decimal(view.sel[1].end[1] + 1)

\* C7: the URL handed to the browser is {baseURL}/blob/{branch}/{relativePath},
\* followed by ?plain=1#L{begin}-L{end} exactly when a line range is present.
C7_UrlFormat ==
    Opened =>
        /\ Len(browser) = 1
        /\ browser[1] = UsedBase \o "/blob/" \o UsedBranch \o "/"
                            \o removeprefix(File, Strip(repo.toplevel.stdout) \o "/")
                            \o (IF HasRange THEN LineAnchor ELSE "")
        /\ ~HasRange => ~Contains(browser[1], "?plain=1#L")

\* C7's case: a selection over two rows, and the URL opened ends in its anchor.
C7_Witness ==
    /\ Opened
    /\ HasRange
    /\ view.sel[1].begin[1] # view.sel[1].end[1]
    /\ EndsWith(browser[1], "/blob/main/src/a.go?plain=1#L1-L2")

-----------------------------------------------------------------------------
(* The git wrappers on their own, each called once on a repository. *)

BranchLines ==
    {"* dev", "  dev", "  zeta", "  main", "  master", "  remotes/origin/main",
     "* (HEAD detached at a1b2c3)"}

Listings ==
    {Exit0(Join(ls)) : ls \in SeqsUpTo(BranchLines, MaxBranches)}
        \cup {Failed(129, ""), Failed(129, "error: malformed object name\n"), TimedOut}

FnConfigs ==
    Configs({Exit0("git@github.com:org/repo.git\n"), Exit0("\n"), Failed(1, ""),
             Failed(128, "fatal: bad config\n")},
            {Exit0("https://github.com/up/repo\n"), TimedOut},
            {Exit0("origin\n")},
            {Exit0("origin\n"), Exit0("up\n"), Failed(1, "")},
            {Exit0("origin\n"), Failed(1, "")})

FnRepos ==
    {[DefaultRepo EXCEPT !.nameRev = nr, !.head = h] : nr \in NameRevs, h \in Heads \cup {TimedOut}}
        \cup {[DefaultRepo EXCEPT !.contains = l, !.config = c] : l \in Listings, c \in FnConfigs}
        \cup {[DefaultRepo EXCEPT !.remotes = rs, !.config = c] : rs \in RemoteLists, c \in FnConfigs}

Commands ==
    {<<"rev-parse", "--show-toplevel">>, <<"rev-parse", "HEAD">>,
     <<"name-rev", "--name-only", "HEAD">>, <<"remote", "show">>,
     <<"branch", "--all", "--no-color", "--contains", Sha>>,
     <<"config", "get", "remote.origin.url">>, <<"config", "branch.dev.remote">>}

InitFunctions ==
    /\ repo \in FnRepos
    /\ view = SavedView(<<>>)
    /\ table = <<>>
    /\ Idle

Called(name, a, res) ==
    /\ pc = "idle"
    /\ pc' = "done"
    /\ op' = name
    /\ arg' = a
    /\ result' = res
    /\ UNCHANGED <<repo, view, table, prev, browser, status>>

CallGit == \E cmd \in Commands : Called("_git", cmd, _git(repo, File, cmd))

CallGitBranch == Called("git_branch", "", git_branch(repo, File))

CallGitCommitBranch ==
    \E commit \in {Sha, "main"} :
        Called("git_commit_branch", commit, git_commit_branch(repo, File, commit))

CallGitBranchRemoteUrl ==
    \E branch \in {Sha, "main", "dev"} :
        Called("git_branch_remote_url", branch, git_branch_remote_url(repo, File, branch))

NextFunctions == CallGit \/ CallGitBranch \/ CallGitCommitBranch \/ CallGitBranchRemoteUrl

SpecFunctions == InitFunctions /\ [][NextFunctions]_vars

-----------------------------------------------------------------------------
(* Properties of the git wrappers, under SpecFunctions. *)

Exited(proc) == ~proc.timeout

ExitedNonZero(proc) == ~proc.timeout /\ proc.returncode # 0

Succeeded(proc) == ~proc.timeout /\ proc.returncode = 0

NoTimeouts ==
    /\ \A f \in {"toplevel", "head", "nameRev", "remotes", "contains"} : Exited(repo[f])
    /\ \A k \in DOMAIN repo.config : Exited(repo.config[k])

\* C9: when the command exits non-zero, with or without stderr, _git logs the
\* failure and raises CalledProcessError carrying the command, the exit code
\* and stderr, and no other kind of error.
C9_NonZeroExitRaisesCommandFailed ==
    (pc = "done" /\ op = "_git" /\ ExitedNonZero(Process(repo, arg)))
        => /\ result.tag = "raise"
           /\ result.logged
           /\ result.exc = CalledProcessError(<<"git", "-C", "/w/src">> \o arg,
                                              Process(repo, arg).returncode,
                                              Process(repo, arg).stderr)

NameLookup == repo.nameRev

ShaLookup == repo.head

\* C10: git_branch returns the name reported for HEAD exactly when it is not
\* 'HEAD' and does not start with 'tags/'; otherwise (detached, a tag, or the
\* name lookup exiting non-zero) the commit hash of HEAD, and a non-zero exit
\* of the commit hash lookup is propagated.
C10_NameOrCommitHash ==
    (pc = "done" /\ op = "git_branch" /\ Exited(NameLookup) /\ Exited(ShaLookup))
        => IF /\ Succeeded(NameLookup)
              /\ Strip(NameLookup.stdout) # "HEAD"
              /\ ~StartsWith(Strip(NameLookup.stdout), "tags/")
           THEN result = Return(Strip(NameLookup.stdout))
           ELSE IF Succeeded(ShaLookup) THEN result = Return(Strip(ShaLookup.stdout))
           ELSE result.tag = "raise"

\* C8: git_branch_remote_url never propagates the command failure of a config
\* lookup, on the single-remote path as on the branch.<branch>.remote path.
C8_ConfigFailureNotPropagated ==
    (pc = "done" /\ op = "git_branch_remote_url")
        => ~(/\ result.tag = "raise"
             /\ result.exc.type = "CalledProcessError"
             /\ result.exc.cmd[4] = "config")

Entries == SplitLines(Strip(repo.contains.stdout))

Names == {Strip(Entries[i]) : i \in 1..Len(Entries)}

CheckedOut == {i \in 1..Len(Entries) : StartsWith(Entries[i], "* ") /\ ~Contains(Entries[i], "HEAD detached at")}

ConfigOf(key) == Process(repo, <<"config", key>>)

\* The branch has a configured remote name, and that remote a configured URL.
Browsable(b) ==
    /\ Succeeded(ConfigOf("branch." \o b \o ".remote"))
    /\ Succeeded(ConfigOf("remote." \o Strip(ConfigOf("branch." \o b \o ".remote").stdout) \o ".url"))
    /\ Strip(ConfigOf("remote." \o Strip(ConfigOf("branch." \o b \o ".remote").stdout) \o ".url").stdout) # ""

PreferredPresent == {i \in 1..Len(PREFERRED_BRANCHES) : PREFERRED_BRANCHES[i] \in Names}

CommitBranch ==
    IF ExitedNonZero(repo.contains) \/ Entries = <<>> THEN None
    ELSE IF CheckedOut # {}
         THEN Some(SubSeq(Entries[CHOOSE i \in CheckedOut : \A j \in CheckedOut : i <= j],
                          3, Len(Entries[CHOOSE i \in CheckedOut : \A j \in CheckedOut : i <= j])))
    ELSE IF PreferredPresent # {}
         THEN Some(PREFERRED_BRANCHES[CHOOSE i \in PreferredPresent : \A j \in PreferredPresent : i <= j])
    ELSE IF \E b \in Names : Browsable(b)
         THEN Some(CHOOSE b \in Names : Browsable(b) /\ \A c \in Names : Browsable(c) => (c = b \/ StrLess(b, c)))
    ELSE None

\* C6: git_commit_branch returns the first applicable of: the checked-out
\* entry that is not the detached HEAD placeholder, marker stripped; the
\* first of master, main, remotes/origin/master, remotes/origin/main in the
\* list; the first branch in lexicographic order with a configured remote
\* that has a configured URL; and no branch when the list is empty, the
\* listing command fails, or none of the three applies.
C6_CommitBranchSearch ==
    (pc = "done" /\ op = "git_commit_branch" /\ NoTimeouts) => result = Return(CommitBranch)

====
